---- MODULE Spec2Model ----
(***************************************************************************)
(* Model of the evaluation engine of util.py: the hashed tree builder,     *)
(* the tree flattener, the structural similarity scorer and the            *)
(* content-addressed diff (evaluate_restructuring_with_hashes).            *)
(*                                                                         *)
(* Python values are represented as follows.                               *)
(*   - a dict is a function from keys to values;                           *)
(*   - a value that is not a dict (a str, a list, None where a mapping is  *)
(*     expected) is the record NonMapping, the only value with a "py"      *)
(*     field, so isinstance(v, dict) is IsDict(v);                         *)
(*   - a str used as an entry name is a TLA+ string of one character, and  *)
(*     a path is the sequence of its characters ("b/a" is <<"b","/","a">>);*)
(*   - None in place of a hash is the string None; an optional count of    *)
(*     the result is <<>> for None and <<n>> for the integer n;            *)
(*   - a float is the pair <<numerator, denominator>>.                     *)
(***************************************************************************)
EXTENDS Integers, Sequences, FiniteSets, TLC

\* ---------------------------------------------------------------- bounds

\* Largest number of entries (files, directories, error and malformed
\* entries together) of one snapshot.
MaxNodes == 2

\* ------------------------------------------------------------ the values

None == "None"
NoneVal == <<>>
Some(v) == <<v>>

NonMapping == [py |-> "str"]
IsDict(v) == IF DOMAIN v = {} THEN TRUE ELSE "py" \notin DOMAIN v

EmptyDict == [k \in {} |-> None]
\* dict.keys()
Keys(d) == IF DOMAIN d = {} THEN {} ELSE DOMAIN d

\* Entry names, as os.listdir yields them: non-empty, without separator,
\* never "." or "..". Listed in sorted order.
NameSeq == <<"a", "b">>
Names == {NameSeq[i] : i \in 1..Len(NameSeq)}

\* Content digests of readable files.
HashVals == {"H1", "H2"}

FileNode(h) == [type |-> "file", hash |-> h]
DirNode(children) == [type |-> "directory", children |-> children]
ErrorNode(m) == [type |-> "error", message |-> m]

\* ------------------------------------------------------- string helpers

separator == "/"
OsPathSep == "/"
RootPath == <<".">>

\* str.replace(old, new) for one-character old and new
StrReplace(s, old, new) == [i \in 1..Len(s) |-> IF s[i] = old THEN new ELSE s[i]]

\* str.split(sep): the components between the occurrences of sep
RECURSIVE StrSplit(_, _)
StrSplit(s, sep) ==
    IF \A i \in 1..Len(s) : s[i] # sep
    THEN <<s>>
    ELSE LET i == CHOOSE j \in 1..Len(s) : s[j] = sep /\ \A k \in 1..(j-1) : s[k] # sep
         IN  <<SubSeq(s, 1, i-1)>> \o StrSplit(SubSeq(s, i+1, Len(s)), sep)

\* sep.join(parts)
RECURSIVE StrJoin(_, _)
StrJoin(sep, parts) ==
    IF Len(parts) = 0 THEN <<>>
    ELSE IF Len(parts) = 1 THEN parts[1]
    ELSE parts[1] \o <<sep>> \o StrJoin(sep, Tail(parts))

\* Mutant of Basename: takes the first component, split(separator)[0].
Basename_First(path) == LET p == StrSplit(path, separator) IN p[1]

\* path.split(separator)[-1]
Basename(path) == LET p == StrSplit(path, separator) IN p[Len(p)]
\* separator.join(path.split(separator)[:-1])
Dirname(path) == LET p == StrSplit(path, separator) IN StrJoin(separator, SubSeq(p, 1, Len(p)-1))

\* ------------------------------------------------- the input snapshots

\* The childless entries of a well-formed tree: a file with its digest, a
\* file that could not be read (hash None), an error node.
WellFormedLeaves ==
    {FileNode(h) : h \in HashVals \cup {None}} \cup {ErrorNode("E")}

\* The malformed entries: a child that is no dict, a directory whose
\* children value is no dict.
MalformedLeaves == {NonMapping, DirNode(NonMapping)}

RECURSIVE NodesExact(_, _)
RECURSIVE DictsExact(_, _, _)
\* the entries that make up exactly k nodes, with childless entries from L
NodesExact(k, L) ==
    IF k < 1 THEN {}
    ELSE (IF k = 1 THEN L ELSE {})
         \cup {DirNode(d) : d \in DictsExact(k - 1, 1, L)}
\* the dicts over the names NameSeq[i..] that hold exactly k nodes
DictsExact(k, i, L) ==
    IF i > Len(NameSeq) THEN (IF k = 0 THEN {EmptyDict} ELSE {})
    ELSE DictsExact(k, i + 1, L)
         \cup UNION {{(NameSeq[i] :> n) @@ d :
                          n \in NodesExact(j, L), d \in DictsExact(k - j, i + 1, L)}
                      : j \in 1..k}

TreesUpTo(n, L) == UNION {DictsExact(k, 1, L) : k \in 0..n}

\* ------------------------------------------------------ the tree builder

\* The file system under a start path. An entry is a directory (that
\* os.listdir can list or not), a regular file (that can be read or not), or
\* something that is neither (a socket, a dangling link).
FsDir(entries) == [kind |-> "dir", listing |-> "ok", entries |-> entries]
FsUnlistable == [kind |-> "dir", listing |-> "OSError"]
FsFile(data) == [kind |-> "file", data |-> data]
FsOther == [kind |-> "other"]
Unreadable == "unreadable"

FsLeaves == {FsFile("c1"), FsFile(Unreadable), FsUnlistable, FsOther}

RECURSIVE FsNodesExact(_)
RECURSIVE FsDictsExact(_, _)
FsNodesExact(k) ==
    IF k < 1 THEN {}
    ELSE (IF k = 1 THEN FsLeaves ELSE {})
         \cup {FsDir(d) : d \in FsDictsExact(k - 1, 1)}
FsDictsExact(k, i) ==
    IF i > Len(NameSeq) THEN (IF k = 0 THEN {EmptyDict} ELSE {})
    ELSE FsDictsExact(k, i + 1)
         \cup UNION {{(NameSeq[i] :> n) @@ d :
                          n \in FsNodesExact(j), d \in FsDictsExact(k - j, i + 1)}
                      : j \in 1..k}

\* What a start path can be: a directory of up to n entries, a directory that
\* cannot be listed, or no directory at all.
FsRootsUpTo(n) ==
    {FsDir(d) : d \in UNION {FsDictsExact(k, 1) : k \in 0..n}}
    \cup {FsUnlistable, FsFile("c1")}

\* hashlib.sha256 of the content: distinct contents have distinct digests
Sha256Hex(data) == IF data = "c1" THEN "H1" ELSE "H2"

\* Mutant of calculate_sha256: a failed read gives the digest of the data read
\* so far instead of None.
calculate_sha256_of_partial_read(file) ==
    IF file.data = Unreadable THEN Sha256Hex("") ELSE Sha256Hex(file.data)

\* None when the file cannot be opened or read
calculate_sha256(file) == IF file.data = Unreadable THEN None ELSE Sha256Hex(file.data)

RECURSIVE _build_tree_recursive(_)
_build_tree_recursive(dir) ==
    IF dir.listing # "ok"
    THEN "__listing_error__" :> NonMapping
    ELSE LET items == dir.entries
             \* the entries that get a node: directories and regular files
             kept == {item_name \in Keys(items) : items[item_name].kind \in {"dir", "file"}}
         IN  [item_name \in kept |->
                 IF items[item_name].kind = "dir"
                 THEN DirNode(_build_tree_recursive(items[item_name]))
                 ELSE FileNode(calculate_sha256(items[item_name]))]

create_directory_tree_with_hashes(start) ==
    IF start.kind # "dir" THEN EmptyDict
    ELSE _build_tree_recursive(start)

\* ---------------------------------------------------------- the flattener

RECURSIVE _flatten_tree_with_hashes(_, _)

\* Mutant of _flatten_tree_with_hashes: the start path "." is not dropped from
\* the paths.
_flatten_keeps_start_path(tree_dict, current_path0) ==
    LET current_path == StrReplace(current_path0, OsPathSep, separator)
        base_path == current_path \o <<separator>>
        ItemsOf(name) ==
            LET content == tree_dict[name]
                item_path == base_path \o <<name>>
                item_type == IF IsDict(content) THEN content.type ELSE "unknown"
                item_hash == IF IsDict(content) /\ item_type = "file" THEN content.hash ELSE None
            IN  IF item_type = "directory"
                THEN {<<item_path, "directory", None>>}
                     \cup (IF IsDict(content.children)
                           THEN _flatten_tree_with_hashes(content.children, item_path)
                           ELSE {})
                ELSE IF item_type = "file" THEN {<<item_path, "file", item_hash>>}
                ELSE IF item_type = "error" THEN {<<item_path, "error", content.message>>}
                ELSE {}
    IN  UNION {ItemsOf(name) : name \in DOMAIN tree_dict}

\* Mutant of _flatten_tree_with_hashes: a directory whose children value is no
\* dict is left out with its children.
_flatten_drops_malformed_dir(tree_dict, current_path0) ==
    LET current_path == StrReplace(current_path0, OsPathSep, separator)
        base_path == IF current_path = RootPath THEN <<>> ELSE current_path \o <<separator>>
        ItemsOf(name) ==
            LET content == tree_dict[name]
                item_path == base_path \o <<name>>
                item_type == IF IsDict(content) THEN content.type ELSE "unknown"
                item_hash == IF IsDict(content) /\ item_type = "file" THEN content.hash ELSE None
            IN  IF item_type = "directory"
                THEN IF IsDict(content.children)
                     THEN {<<item_path, "directory", None>>}
                          \cup _flatten_tree_with_hashes(content.children, item_path)
                     ELSE {}
                ELSE IF item_type = "file" THEN {<<item_path, "file", item_hash>>}
                ELSE IF item_type = "error" THEN {<<item_path, "error", content.message>>}
                ELSE {}
    IN  UNION {ItemsOf(name) : name \in DOMAIN tree_dict}

_flatten_tree_with_hashes(tree_dict, current_path0) ==
    LET current_path == StrReplace(current_path0, OsPathSep, separator)
        base_path == IF current_path = RootPath THEN <<>> ELSE current_path \o <<separator>>
        ItemsOf(name) ==
            LET content == tree_dict[name]
                item_path == base_path \o <<name>>
                item_type == IF IsDict(content) THEN content.type ELSE "unknown"
                item_hash == IF IsDict(content) /\ item_type = "file" THEN content.hash ELSE None
            IN  IF item_type = "directory"
                THEN {<<item_path, "directory", None>>}
                     \cup (IF IsDict(content.children)
                           THEN _flatten_tree_with_hashes(content.children, item_path)
                           ELSE {})
                ELSE IF item_type = "file" THEN {<<item_path, "file", item_hash>>}
                ELSE IF item_type = "error" THEN {<<item_path, "error", content.message>>}
                ELSE {}
    IN  UNION {ItemsOf(name) : name \in DOMAIN tree_dict}

\* ------------------------------------------------- the similarity scorer

\* The keys a dict can hold, in the order sorted() puts them.
KeyOrder == <<"__listing_error__">> \o NameSeq
\* sorted(children_dict.items()): the keys of the dict in sorted order
SortedKeys(d) == SelectSeq(KeyOrder, LAMBDA k : k \in DOMAIN d)

ZssNode(label, kids) == [label |-> label, kids |-> kids]

RECURSIVE _dict_to_zss_node_recursive_hashed(_, _)

\* Mutant of the conversion: a converted child adds 1 to the node count
\* instead of the count of its subtree.
_dict_to_zss_counts_children_only(node_label, node_content) ==
    LET children_dict == node_content.children
        keys == SortedKeys(children_dict)
        good == SelectSeq(keys, LAMBDA k : IsDict(children_dict[k]))
    IN  IF node_content.type = "directory" /\ IsDict(children_dict)
        THEN <<ZssNode(node_label,
                       [i \in 1..Len(good) |->
                           _dict_to_zss_node_recursive_hashed(good[i], children_dict[good[i]])[1]]),
               1 + Len(good)>>
        ELSE <<ZssNode(node_label, <<>>), 1>>

\* Mutant of the conversion: a child that is no dict is not skipped but
\* becomes a leaf.
_dict_to_zss_keeps_malformed(node_label, node_content) ==
    IF ~IsDict(node_content) THEN <<ZssNode(node_label, <<>>), 1>>
    ELSE
    LET children_dict == node_content.children
        keys == SelectSeq(SortedKeys(children_dict), LAMBDA k : k \in Names)
        conv == [i \in 1..Len(keys) |->
                    _dict_to_zss_node_recursive_hashed(keys[i], children_dict[keys[i]])]
        RECURSIVE SumCounts(_)
        SumCounts(i) == IF i = 0 THEN 0 ELSE conv[i][2] + SumCounts(i - 1)
    IN  IF node_content.type = "directory" /\ IsDict(children_dict)
        THEN <<ZssNode(node_label, [i \in 1..Len(conv) |-> conv[i][1]]), 1 + SumCounts(Len(conv))>>
        ELSE <<ZssNode(node_label, <<>>), 1>>

\* Mutant of the conversion: a file node without a hash is skipped.
_dict_to_zss_skips_unhashed(node_label, node_content) ==
    LET node_type == node_content.type
        children_dict == node_content.children
        Converted ==
            LET keys == SortedKeys(children_dict)
                good == SelectSeq(keys, LAMBDA k :
                            /\ IsDict(children_dict[k])
                            /\ ~(children_dict[k].type = "file" /\ children_dict[k].hash = None))
            IN  [i \in 1..Len(good) |->
                    _dict_to_zss_node_recursive_hashed(good[i], children_dict[good[i]])]
        RECURSIVE SumCounts(_)
        SumCounts(i) == IF i = 0 THEN 0 ELSE Converted[i][2] + SumCounts(i - 1)
    IN  IF node_type = "directory" /\ IsDict(children_dict)
        THEN <<ZssNode(node_label, [i \in 1..Len(Converted) |-> Converted[i][1]]),
               1 + SumCounts(Len(Converted))>>
        ELSE <<ZssNode(node_label, <<>>), 1>>

\* Returns the pair (zss node, node count).
_dict_to_zss_node_recursive_hashed(node_label, node_content) ==
    LET node_type == node_content.type
        children_dict == node_content.children
        Converted ==
            LET keys == SortedKeys(children_dict)
                \* the children that are dicts, in sorted order; the others are skipped
                good == SelectSeq(keys, LAMBDA k : IsDict(children_dict[k]))
            IN  [i \in 1..Len(good) |->
                    _dict_to_zss_node_recursive_hashed(good[i], children_dict[good[i]])]
        RECURSIVE SumCounts(_)
        SumCounts(i) == IF i = 0 THEN 0 ELSE Converted[i][2] + SumCounts(i - 1)
    IN  IF node_type = "directory" /\ IsDict(children_dict)
        THEN <<ZssNode(node_label, [i \in 1..Len(Converted) |-> Converted[i][1]]),
               1 + SumCounts(Len(Converted))>>
        ELSE <<ZssNode(node_label, <<>>), 1>>

\* zss.simple_distance: the edit distance of two ordered labelled trees with
\* unit cost per insertion, removal and relabelling, as the distance of two
\* ordered forests decomposed at their rightmost roots.
RECURSIVE ForestSize(_)
ForestSize(F) ==
    IF Len(F) = 0 THEN 0
    ELSE 1 + ForestSize(F[Len(F)].kids) + ForestSize(SubSeq(F, 1, Len(F) - 1))

MinOf(S) == CHOOSE m \in S : \A n \in S : m <= n

RECURSIVE ForestDist(_, _)
ForestDist(F, G) ==
    IF Len(F) = 0 THEN ForestSize(G)
    ELSE IF Len(G) = 0 THEN ForestSize(F)
    ELSE LET v == F[Len(F)]
             w == G[Len(G)]
             Fr == SubSeq(F, 1, Len(F) - 1)
             Gr == SubSeq(G, 1, Len(G) - 1)
         IN  MinOf({ForestDist(Fr \o v.kids, G) + 1,
                    ForestDist(F, Gr \o w.kids) + 1,
                    ForestDist(v.kids, w.kids) + ForestDist(Fr, Gr)
                        + (IF v.label = w.label THEN 0 ELSE 1)})

\* The ordered forests of exactly k nodes whose roots carry names of
\* NameSeq[i..] in sorted order: the shapes the conversion can produce.
RECURSIVE ZssForests(_, _)
ZssForests(k, i) ==
    IF k = 0 THEN {<<>>}
    ELSE UNION {UNION {{<<ZssNode(NameSeq[j], kids)>> \o rest :
                           kids \in ZssForests(sz - 1, 1), rest \in ZssForests(k - sz, j + 1)}
                       : sz \in 1..k}
                : j \in i..Len(NameSeq)}

ZssTrees == UNION {{ZssNode(".", f) : f \in ZssForests(k, 1)} : k \in 0..MaxNodes}

\* The distances of all pairs of trees, computed once (@@ yields each table
\* as an explicit function).
DistTable ==
    [A \in ZssTrees |-> ([B \in ZssTrees |-> ForestDist(<<A>>, <<B>>)] @@ EmptyDict)] @@ EmptyDict

simple_distance(A, B) == DistTable[A][B]

\* floats, as <<numerator, denominator>> with a positive denominator
Float(n, d) == <<n, d>>
FloatLess(f, g) == f[1] * g[2] < g[1] * f[2]
FloatEq(f, g) == f[1] * g[2] = g[1] * f[2]
FloatMin(f, g) == IF FloatLess(g, f) THEN g ELSE f
FloatMax(f, g) == IF FloatLess(f, g) THEN g ELSE f

root_label == "."

\* Mutant of the scorer: the quotient is the floor division distance // total.
calculate_tree_similarity_floor_division(tree_dict1, tree_dict2, zss_raises) ==
    IF zss_raises THEN Float(-1, 1)
    ELSE
    LET c1 == _dict_to_zss_node_recursive_hashed(root_label, DirNode(tree_dict1))
        c2 == _dict_to_zss_node_recursive_hashed(root_label, DirNode(tree_dict2))
        distance == simple_distance(c1[1], c2[1])
        max_possible_distance == c1[2] + c2[2]
    IN  FloatMax(Float(0, 1),
                 FloatMin(Float(1 - (distance \div max_possible_distance), 1), Float(1, 1)))

\* zss_raises: an exception is raised inside the try block (the library or the
\* conversion exhausts the interpreter's stack or memory)
calculate_tree_similarity_zss_hashed(tree_dict1, tree_dict2, zss_raises) ==
    IF zss_raises THEN Float(-1, 1)
    ELSE
    LET root_content1 == DirNode(tree_dict1)
        root_content2 == DirNode(tree_dict2)
        c1 == _dict_to_zss_node_recursive_hashed(root_label, root_content1)
        c2 == _dict_to_zss_node_recursive_hashed(root_label, root_content2)
        size1 == c1[2]
        size2 == c2[2]
        distance == simple_distance(c1[1], c2[1])
        max_possible_distance == size1 + size2
    IN  IF size1 = 0 /\ size2 = 0 THEN Float(1, 1)
        ELSE IF max_possible_distance = 0
             THEN (IF distance = 0 THEN Float(1, 1) ELSE Float(0, 1))
        ELSE FloatMax(Float(0, 1),
                      FloatMin(Float(max_possible_distance - distance, max_possible_distance),
                               Float(1, 1)))

\* --------------------------------------------------- the evaluation state

VARIABLES
    root1, root2,              \* the file systems under the two start paths
    original_tree_dict,        \* the first snapshot
    restructured_tree_dict,    \* the second snapshot
    pc,                        \* the position in evaluate_restructuring_with_hashes
    returned,                  \* "pending", "None" (return None) or "results"
    results,                   \* the results dict: key -> value
    raised,                    \* where an exception was raised: "no", "zss", "flatten", ...
    ted_similarity,            \* the local ted_similarity: NoneVal until it is assigned
    items1, items2,            \* the flattened snapshots
    files1_map, files2_map,    \* hash -> representative path
    moved_renamed_details,     \* the detail records of Phase A
    deleted_dirs_cand, added_dirs_cand,
    matched_added_dirs, processed_deleted_dirs,
    dirs_moved, dirs_renamed,
    moved_renamed_dir_details,
    todo                       \* the deleted candidates the loop has not visited yet

vars == <<root1, root2, original_tree_dict, restructured_tree_dict, pc, returned, results, raised,
          ted_similarity, items1, items2, files1_map, files2_map, moved_renamed_details,
          deleted_dirs_cand, added_dirs_cand, matched_added_dirs, processed_deleted_dirs,
          dirs_moved, dirs_renamed, moved_renamed_dir_details, todo>>

roots == <<root1, root2>>
inputs == <<root1, root2, original_tree_dict, restructured_tree_dict>>
phaseA_locals == <<items1, items2, files1_map, files2_map, moved_renamed_details>>
phaseB_locals == <<deleted_dirs_cand, added_dirs_cand, matched_added_dirs,
                   processed_deleted_dirs, dirs_moved, dirs_renamed,
                   moved_renamed_dir_details, todo>>

\* The snapshots handed to the evaluation: the well-formed trees, and a value
\* that is no dict at all (a snapshot that failed to load).
Snapshots == TreesUpTo(MaxNodes, WellFormedLeaves) \cup {NonMapping}

\* The snapshots with malformed entries.
MalformedSnapshots == TreesUpTo(MaxNodes, {FileNode("H1")} \cup MalformedLeaves)

\* no file system: the snapshots are handed over as dicts
NoRoot == [kind |-> "none"]

InitLocals ==
    /\ returned = "pending"
    /\ results = EmptyDict
    /\ raised = "no"
    /\ ted_similarity = NoneVal
    /\ items1 = {} /\ items2 = {}
    /\ files1_map = EmptyDict /\ files2_map = EmptyDict
    /\ moved_renamed_details = {}
    /\ deleted_dirs_cand = {} /\ added_dirs_cand = {}
    /\ matched_added_dirs = {} /\ processed_deleted_dirs = {}
    /\ dirs_moved = 0 /\ dirs_renamed = 0
    /\ moved_renamed_dir_details = {}
    /\ todo = {}

\* The evaluation of two given well-formed snapshots.
Init ==
    /\ root1 = NoRoot /\ root2 = NoRoot
    /\ original_tree_dict \in Snapshots
    /\ restructured_tree_dict \in Snapshots
    /\ pc = "similarity"
    /\ InitLocals

\* The evaluation of two given snapshots with malformed entries.
InitMalformed ==
    /\ root1 = NoRoot /\ root2 = NoRoot
    /\ original_tree_dict \in MalformedSnapshots
    /\ restructured_tree_dict \in MalformedSnapshots
    /\ pc = "similarity"
    /\ InitLocals

\* The evaluation of the snapshots of two directories, built first.
InitBuild ==
    /\ root1 \in FsRootsUpTo(MaxNodes)
    /\ root2 \in FsRootsUpTo(MaxNodes)
    /\ original_tree_dict = EmptyDict
    /\ restructured_tree_dict = EmptyDict
    /\ pc = "build"
    /\ InitLocals

\* 0. the two snapshots are built from the directories
Build ==
    /\ pc = "build"
    /\ original_tree_dict' = create_directory_tree_with_hashes(root1)
    /\ restructured_tree_dict' = create_directory_tree_with_hashes(root2)
    /\ pc' = "similarity"
    /\ UNCHANGED <<roots, returned, results, raised, ted_similarity, phaseA_locals,
                   phaseB_locals>>

file_keys == {"files_added", "files_deleted", "files_unchanged", "files_moved",
              "files_renamed", "files_moved_renamed"}
dir_keys == {"dirs_added", "dirs_deleted", "dirs_unchanged", "dirs_moved", "dirs_renamed"}
keys_to_clear == file_keys \cup dir_keys \cup {"details"}

\* results[key] = value for every key of the dict upd
Store(res, upd) == upd @@ res

\* Mutant of ExceptHandler: the cleared keys are reset to 0 instead of None.
ExceptHandler_ResetsToZero(res, msg) ==
    [k \in keys_to_clear |-> Some(0)] @@ ("diff_error" :> msg) @@ res

\* The except clause of the diff block: record the message, clear the counts.
ExceptHandler(res, msg) ==
    [k \in keys_to_clear |-> NoneVal] @@ ("diff_error" :> msg) @@ res

\* 1. the similarity, and the early return when it failed
Similarity ==
    /\ pc = "similarity"
    /\ \E zss_raises \in BOOLEAN :
         \E ted \in {calculate_tree_similarity_zss_hashed(
                        original_tree_dict, restructured_tree_dict, zss_raises)} :
             /\ ted_similarity' = Some(ted)
             /\ raised' = IF zss_raises THEN "zss" ELSE "no"
             /\ IF FloatLess(ted, Float(0, 1))
                THEN /\ returned' = "None"
                     /\ pc' = "done"
                     /\ UNCHANGED results
                ELSE /\ results' = Store(results, [ted_similarity |-> Some(ted)])
                     /\ pc' = "flatten"
                     /\ UNCHANGED returned
    /\ UNCHANGED <<inputs, phaseA_locals, phaseB_locals>>

\* 2. the two flattenings; tree_dict.items() raises on a value that is no dict
Flatten ==
    /\ pc = "flatten"
    /\ IF IsDict(original_tree_dict) /\ IsDict(restructured_tree_dict)
       THEN /\ items1' = _flatten_tree_with_hashes(original_tree_dict, RootPath)
            /\ items2' = _flatten_tree_with_hashes(restructured_tree_dict, RootPath)
            /\ pc' = "phaseA"
            /\ UNCHANGED <<results, returned, raised>>
       ELSE /\ results' = ExceptHandler(results, "AttributeError")
            /\ raised' = "flatten"
            /\ returned' = "results"
            /\ pc' = "done"
            /\ UNCHANGED <<items1, items2>>
    /\ UNCHANGED <<inputs, ted_similarity, files1_map, files2_map, moved_renamed_details, phaseB_locals>>

\* Mutant of FileMaps: the test "item[2] is not None" is missing.
FileMaps_KeepsNone(items) ==
    LET files == {item \in items : item[2] = "file"}
        hashes == {item[3] : item \in files}
        paths == {item[1] : item \in files}
    IN  {m \in [hashes -> paths] : \A h \in hashes : <<m[h], "file", h>> \in files}

\* {item[2]: item[0] for item in items if item[1] == 'file' and item[2] is not None}
\* A later item of the iteration overwrites an earlier one with the same hash,
\* and the iteration order of a set is not specified: every choice of one
\* path per hash is a possible map.
FileMaps(items) ==
    LET files == {item \in items : item[2] = "file" /\ item[3] # None}
        hashes == {item[3] : item \in files}
        paths == {item[1] : item \in files}
    IN  {m \in [hashes -> paths] : \A h \in hashes : <<m[h], "file", h>> \in files}

\* Mutant of ClassifyFile: the branch of a pure rename is missing.
ClassifyFile_NoRenameBranch(path1, path2) ==
    IF path1 = path2 THEN "unchanged"
    ELSE IF Dirname(path1) # Dirname(path2) /\ Basename(path1) # Basename(path2)
         THEN "moved_renamed"
    ELSE IF Dirname(path1) # Dirname(path2) THEN "moved"
    ELSE None

\* Mutant of ClassifyFile: the tests of moved and renamed are exchanged.
ClassifyFile_Swapped(path1, path2) ==
    IF path1 = path2 THEN "unchanged"
    ELSE IF Dirname(path1) # Dirname(path2) /\ Basename(path1) # Basename(path2)
         THEN "moved_renamed"
    ELSE IF Basename(path1) # Basename(path2) THEN "moved"
    ELSE IF Dirname(path1) # Dirname(path2) THEN "renamed"
    ELSE None

\* The classification of a common hash in the loop of Phase A; None when no
\* counter is incremented.
ClassifyFile(path1, path2) ==
    IF path1 = path2 THEN "unchanged"
    ELSE LET basename1 == Basename(path1)
             basename2 == Basename(path2)
             dirname1 == Dirname(path1)
             dirname2 == Dirname(path2)
             moved == dirname1 # dirname2
             renamed == basename1 # basename2
         IN  IF moved /\ renamed THEN "moved_renamed"
             ELSE IF moved THEN "moved"
             ELSE IF renamed THEN "renamed"
             ELSE None

\* The six file counts of Phase A for the two maps.
FileCounts(m1, m2) ==
    LET hashes1 == Keys(m1)
        hashes2 == Keys(m2)
        deleted_hashes == hashes1 \ hashes2
        added_hashes == hashes2 \ hashes1
        common_hashes == hashes1 \cap hashes2
        Count(kind) == Cardinality({h \in common_hashes : ClassifyFile(m1[h], m2[h]) = kind})
    IN  [files_added |-> Some(Cardinality(added_hashes)),
         files_deleted |-> Some(Cardinality(deleted_hashes)),
         files_unchanged |-> Some(Count("unchanged")),
         files_moved |-> Some(Count("moved")),
         files_renamed |-> Some(Count("renamed")),
         files_moved_renamed |-> Some(Count("moved_renamed"))]

\* Mutant of FileDetails: the record is appended for an unchanged file too.
FileDetails_IncludesUnchanged(m1, m2) ==
    {[hash |-> h, original_path |-> m1[h], new_path |-> m2[h],
      change_type |-> ClassifyFile(m1[h], m2[h])] :
        h \in Keys(m1) \cap Keys(m2)}

\* One record per common hash whose two paths differ.
FileDetails(m1, m2) ==
    {[hash |-> h, original_path |-> m1[h], new_path |-> m2[h],
      change_type |-> ClassifyFile(m1[h], m2[h])] :
        h \in {c \in Keys(m1) \cap Keys(m2) : m1[c] # m2[c]}}

DirPaths(items) == {item[1] : item \in {i \in items : i[2] = "directory"}}

\* 3. Phase A (the file analysis) and the candidate sets of Phase B.
\* Two equal snapshots are flattened by the same sequence of insertions, so
\* their sets iterate in the same order and keep the same representatives.
PhaseA ==
    /\ pc = "phaseA"
    /\ \E m1 \in FileMaps(items1), m2 \in FileMaps(items2) :
         /\ (original_tree_dict = restructured_tree_dict) => (m1 = m2)
         /\ files1_map' = m1
         /\ files2_map' = m2
         /\ moved_renamed_details' = FileDetails(m1, m2)
         /\ results' = Store(results, FileCounts(m1, m2))
    /\ LET dirs1_paths == DirPaths(items1)
           dirs2_paths == DirPaths(items2)
       IN  /\ deleted_dirs_cand' = dirs1_paths \ dirs2_paths
           /\ added_dirs_cand' = dirs2_paths \ dirs1_paths
           /\ todo' = dirs1_paths \ dirs2_paths
    /\ dirs_moved' = 0
    /\ dirs_renamed' = 0
    /\ matched_added_dirs' = {}
    /\ processed_deleted_dirs' = {}
    /\ moved_renamed_dir_details' = {}
    /\ pc' = "phaseB"
    /\ UNCHANGED <<inputs, items1, items2, returned, raised, ted_similarity>>

\* Mutant of PotentialMoves: the test "ad not in matched_added_dirs" is
\* missing.
PotentialMoves_IgnoresMatched(dd, added, matched) ==
    {ad \in added : Basename(ad) = Basename(dd)}

\* the added candidates a deleted candidate can claim as its move target
PotentialMoves(dd, added, matched) ==
    {ad \in added : ad \notin matched /\ Basename(ad) = Basename(dd)}
\* Mutant of PotentialRenames: the parent of the added candidate is compared
\* with the deleted path itself.
PotentialRenames_ComparesPath(dd, added, matched) ==
    {ad \in added : ad \notin matched /\ Dirname(ad) = dd}

\* the added candidates a deleted candidate can claim as its rename target
PotentialRenames(dd, added, matched) ==
    {ad \in added : ad \notin matched /\ Dirname(ad) = Dirname(dd)}

\* 4. one iteration of the loop over list(deleted_dirs_cand); the order of the
\* list and the element set.pop() takes are not specified.
PhaseBStep ==
    /\ pc = "phaseB"
    /\ \E dd \in todo :
         /\ todo' = todo \ {dd}
         /\ IF dd \in processed_deleted_dirs
            THEN UNCHANGED <<matched_added_dirs, processed_deleted_dirs, dirs_moved,
                             dirs_renamed, moved_renamed_dir_details>>
            ELSE LET potential_moves == PotentialMoves(dd, added_dirs_cand, matched_added_dirs)
                     potential_renames == PotentialRenames(dd, added_dirs_cand, matched_added_dirs)
                 IN  IF potential_moves # {}
                     THEN \E match \in potential_moves :
                            /\ dirs_moved' = dirs_moved + 1
                            /\ matched_added_dirs' = matched_added_dirs \cup {match}
                            /\ processed_deleted_dirs' = processed_deleted_dirs \cup {dd}
                            /\ moved_renamed_dir_details' = moved_renamed_dir_details \cup
                                 {[type |-> "moved", original_path |-> dd, new_path |-> match]}
                            /\ UNCHANGED dirs_renamed
                     ELSE IF potential_renames # {}
                     THEN \E match \in potential_renames :
                            /\ dirs_renamed' = dirs_renamed + 1
                            /\ matched_added_dirs' = matched_added_dirs \cup {match}
                            /\ processed_deleted_dirs' = processed_deleted_dirs \cup {dd}
                            /\ moved_renamed_dir_details' = moved_renamed_dir_details \cup
                                 {[type |-> "renamed", original_path |-> dd, new_path |-> match]}
                            /\ UNCHANGED dirs_moved
                     ELSE UNCHANGED <<matched_added_dirs, processed_deleted_dirs, dirs_moved,
                                      dirs_renamed, moved_renamed_dir_details>>
    /\ UNCHANGED <<inputs, pc, returned, results, raised, ted_similarity, phaseA_locals,
                   deleted_dirs_cand, added_dirs_cand>>

\* 5. after the loop: the directory counts, the details, the return
PhaseBStore ==
    /\ pc = "phaseB"
    /\ todo = {}
    /\ results' = Store(results,
         [dirs_added |-> Some(Cardinality(added_dirs_cand \ matched_added_dirs)),
          dirs_deleted |-> Some(Cardinality(deleted_dirs_cand \ processed_deleted_dirs)),
          dirs_unchanged |-> Some(Cardinality(DirPaths(items1) \cap DirPaths(items2))),
          dirs_moved |-> Some(dirs_moved),
          dirs_renamed |-> Some(dirs_renamed),
          details |-> Some(
            [deleted_files |-> {files1_map[h] : h \in Keys(files1_map) \ Keys(files2_map)},
             added_files |-> {files2_map[h] : h \in Keys(files2_map) \ Keys(files1_map)},
             moved_renamed_files |-> moved_renamed_details,
             deleted_dirs |-> deleted_dirs_cand \ processed_deleted_dirs,
             added_dirs |-> added_dirs_cand \ matched_added_dirs,
             moved_renamed_dirs |-> moved_renamed_dir_details,
             unchanged_dirs |-> DirPaths(items1) \cap DirPaths(items2)])])
    /\ returned' = "results"
    /\ pc' = "done"
    /\ UNCHANGED <<inputs, raised, ted_similarity, phaseA_locals, phaseB_locals>>

\* An exception raised inside the file analysis, before its counts are stored
\* (the interpreter runs out of memory): the except clause runs.
RaiseInPhaseA ==
    /\ pc = "phaseA"
    /\ results' = ExceptHandler(results, "MemoryError")
    /\ raised' = "phaseA"
    /\ returned' = "results"
    /\ pc' = "done"
    /\ UNCHANGED <<inputs, ted_similarity, phaseA_locals, phaseB_locals>>

\* An exception raised inside the directory analysis, after the file counts
\* are stored: the except clause runs.
RaiseInPhaseB ==
    /\ pc = "phaseB"
    /\ results' = ExceptHandler(results, "MemoryError")
    /\ raised' = "phaseB"
    /\ returned' = "results"
    /\ pc' = "done"
    /\ UNCHANGED <<inputs, ted_similarity, phaseA_locals, phaseB_locals>>

Next ==
    \/ Similarity
    \/ Flatten
    \/ PhaseA
    \/ PhaseBStep
    \/ PhaseBStore
    \/ RaiseInPhaseA
    \/ RaiseInPhaseB

Spec == Init /\ [][Next]_vars

SpecMalformed == InitMalformed /\ [][Next]_vars

NextBuild == Build \/ Next

SpecBuild == InitBuild /\ [][NextBuild]_vars

\* The scorer and the flattener alone, applied to two given snapshots.
NextFlatten == Similarity \/ Flatten

SpecFlatten == Init /\ [][NextFlatten]_vars

\* ================================================================ claims

\* ------------------------------------------- notions used by the claims

Sentinel == Float(-1, 1)
\* the evaluation returned a result and its diff block ran to the end
DiffCompleted == pc = "done" /\ returned = "results" /\ "diff_error" \notin Keys(results)
WellFormedInputs == IsDict(original_tree_dict) /\ IsDict(restructured_tree_dict)

\* the distinct hashes of the readable files of a well-formed tree
RECURSIVE HashesIn(_)
HashesIn(tree) ==
    UNION {IF tree[n].type = "file" THEN {tree[n].hash} \ {None}
           ELSE IF tree[n].type = "directory" THEN HashesIn(tree[n].children)
           ELSE {} : n \in Keys(tree)}

\* the number of directories of a well-formed tree
RECURSIVE NumDirs(_)
NumDirs(tree) ==
    LET ds == {n \in Keys(tree) : tree[n].type = "directory"}
        RECURSIVE Sum(_)
        Sum(S) == IF S = {} THEN 0
                  ELSE LET n == CHOOSE m \in S : TRUE
                       IN  1 + NumDirs(tree[n].children) + Sum(S \ {n})
    IN  Sum(ds)

\* a path cut at its last separator: the part before it, the part after it
LastSep(path) ==
    IF \E i \in 1..Len(path) : path[i] = "/"
    THEN CHOOSE i \in 1..Len(path) : path[i] = "/" /\ \A j \in (i+1)..Len(path) : path[j] # "/"
    ELSE 0
FileName(path) == SubSeq(path, LastSep(path) + 1, Len(path))
ParentPath(path) == SubSeq(path, 1, LastSep(path) - 1)

Count(key) == results[key][1]

\* ------------------------------------------------------------------- C1
\* C1: when the similarity scorer reports its failure sentinel -1, the
\* evaluation still runs the diff and returns a result that carries the
\* file and directory counts.
C1_SimilarityFailureKeepsDiff ==
    (pc = "done" /\ ted_similarity = Some(Sentinel))
        => /\ returned = "results"
           /\ (file_keys \cup dir_keys) \subseteq Keys(results)

\* ------------------------------------------------------------------- C2
\* C2: when an exception is raised in the directory phase after the file
\* phase stored its six counts, the returned result still holds those six
\* counts with their computed values.
C2_PhaseBFailureKeepsFileCounts ==
    (pc = "done" /\ raised = "phaseB")
        => /\ returned = "results"
           /\ \A k \in file_keys : results[k] = FileCounts(files1_map, files2_map)[k]

\* ------------------------------------------------------------------- C3
\* C3: when the diff completes, the hashes of exactly one snapshot are the
\* added and the deleted files, the common hashes are split over unchanged,
\* moved, renamed and moved_renamed, and the six counts sum to the number of
\* distinct hashes of the two snapshots together.
C3_FileCountsPartition ==
    DiffCompleted =>
        LET h1 == HashesIn(original_tree_dict)
            h2 == HashesIn(restructured_tree_dict)
        IN  /\ Count("files_deleted") = Cardinality(h1 \ h2)
            /\ Count("files_added") = Cardinality(h2 \ h1)
            /\ Count("files_unchanged") + Count("files_moved") + Count("files_renamed")
                 + Count("files_moved_renamed") = Cardinality(h1 \cap h2)
            /\ Count("files_added") + Count("files_deleted") + Count("files_unchanged")
                 + Count("files_moved") + Count("files_renamed")
                 + Count("files_moved_renamed") = Cardinality(h1 \cup h2)

\* a completed diff with a renamed file and an added file
C3_Witness ==
    /\ DiffCompleted
    /\ Count("files_renamed") = 1
    /\ Count("files_added") = 1

\* ------------------------------------------------------------------- C4
\* The snapshots of the two scenarios, with one-character names: a file a
\* that reappears as b/a, and a file a/a that reappears as a/b.
Scenario1Before == "a" :> FileNode("H1")
Scenario1After == "b" :> DirNode("a" :> FileNode("H1"))
Scenario2Before == "a" :> DirNode("a" :> FileNode("H1"))
Scenario2After == "a" :> DirNode("b" :> FileNode("H1"))

OnlyCount(key) ==
    \A k \in file_keys : Count(k) = IF k = key THEN 1 ELSE 0

\* C4: a common hash with representative paths p1 and p2 is unchanged when
\* p1 = p2, renamed when only the file names differ, moved when only the
\* parent directories differ, moved_renamed when both differ; the file that
\* moves from a to b/a gives files_moved = 1 and the file renamed from a/a to
\* a/b gives files_renamed = 1, every other file count being 0.
C4_FileClassification ==
    DiffCompleted =>
        LET common == Keys(files1_map) \cap Keys(files2_map)
            p1(h) == files1_map[h]
            p2(h) == files2_map[h]
            SameParent(h) == ParentPath(p1(h)) = ParentPath(p2(h))
            SameName(h) == FileName(p1(h)) = FileName(p2(h))
        IN  /\ Count("files_unchanged") = Cardinality({h \in common : p1(h) = p2(h)})
            /\ Count("files_renamed") =
                 Cardinality({h \in common : SameParent(h) /\ ~SameName(h)})
            /\ Count("files_moved") =
                 Cardinality({h \in common : ~SameParent(h) /\ SameName(h)})
            /\ Count("files_moved_renamed") =
                 Cardinality({h \in common : ~SameParent(h) /\ ~SameName(h)})
            /\ (original_tree_dict = Scenario1Before /\ restructured_tree_dict = Scenario1After)
                 => OnlyCount("files_moved")
            /\ (original_tree_dict = Scenario2Before /\ restructured_tree_dict = Scenario2After)
                 => OnlyCount("files_renamed")

\* the first scenario evaluated to the end
C4_Witness ==
    /\ DiffCompleted
    /\ original_tree_dict = Scenario1Before
    /\ restructured_tree_dict = Scenario1After
    /\ Count("files_moved") = 1

\* ------------------------------------------------------------------- C5
\* C5: a well-formed tree compared with itself has no added, deleted, moved,
\* renamed or moved_renamed file and no added, deleted, moved or renamed
\* directory; files_unchanged is the number of its distinct hashes and
\* dirs_unchanged the number of its directories.
C5_SelfComparison ==
    (DiffCompleted /\ original_tree_dict = restructured_tree_dict) =>
        /\ \A k \in {"files_added", "files_deleted", "files_moved", "files_renamed",
                     "files_moved_renamed", "dirs_added", "dirs_deleted", "dirs_moved",
                     "dirs_renamed"} : Count(k) = 0
        /\ Count("files_unchanged") = Cardinality(HashesIn(original_tree_dict))
        /\ Count("dirs_unchanged") = NumDirs(original_tree_dict)

\* a tree with two files of one content, compared with itself
C5_Witness ==
    /\ DiffCompleted
    /\ original_tree_dict = restructured_tree_dict
    /\ original_tree_dict = ("a" :> FileNode("H1")) @@ ("b" :> FileNode("H1"))

\* ------------------------------------------------------------------- C6
\* the number of entries of a well-formed tree
RECURSIVE CountEntries(_)
CountEntries(tree) ==
    LET RECURSIVE Sum(_)
        Sum(S) == IF S = {} THEN 0
                  ELSE LET n == CHOOSE m \in S : TRUE
                       IN  1 + (IF tree[n].type = "directory"
                                THEN CountEntries(tree[n].children) ELSE 0)
                             + Sum(S \ {n})
    IN  Sum(Keys(tree))

ZssOf(tree) == _dict_to_zss_node_recursive_hashed(root_label, DirNode(tree))[1]

\* the scorer has just returned for two well-formed trees, no exception raised
Scored == pc = "flatten" /\ raised # "zss" /\ WellFormedInputs

RECURSIVE ShapeOf(_)
ShapeOf(tree) ==
    [n \in Keys(tree) |->
        IF tree[n].type = "directory" THEN ShapeOf(tree[n].children) ELSE EmptyDict]

\* the entry names of a well-formed tree
RECURSIVE NamesIn(_)
NamesIn(tree) ==
    Keys(tree) \cup UNION {IF tree[n].type = "directory" THEN NamesIn(tree[n].children)
                            ELSE {} : n \in Keys(tree)}

SameShape(t1, t2) ==
    /\ Keys(ShapeOf(t1)) = Keys(ShapeOf(t2))
    /\ ShapeOf(t1) = ShapeOf(t2)

\* C7: the similarity of two well-formed trees is 1.0 exactly when their
\* name-labelled shapes are identical; two non-empty trees without a common
\* entry name score below 1.0.
C7_SimilarityOneIffSameShape ==
    Scored =>
        /\ FloatEq(ted_similarity[1], Float(1, 1))
             <=> SameShape(original_tree_dict, restructured_tree_dict)
        /\ (/\ Keys(original_tree_dict) # {}
            /\ Keys(restructured_tree_dict) # {}
            /\ NamesIn(original_tree_dict) \cap NamesIn(restructured_tree_dict) = {})
             => FloatLess(ted_similarity[1], Float(1, 1))

\* two different trees of one shape score 1.0
C7_Witness ==
    /\ Scored
    /\ original_tree_dict = ("a" :> DirNode("b" :> FileNode("H1")))
    /\ restructured_tree_dict = ("a" :> DirNode("b" :> ErrorNode("E")))
    /\ FloatEq(ted_similarity[1], Float(1, 1))

\* ------------------------------------------------------------------- C8
\* C8: a directory the builder cannot list becomes an error node in place of
\* its subtree, and the flattened snapshot holds an error entry for its path,
\* which is no directory entry.
C8_UnlistableDirIsErrorNode ==
    (pc # "build" /\ root1.kind = "dir" /\ root1.listing = "ok") =>
        \A n \in Keys(root1.entries) :
            (root1.entries[n].kind = "dir" /\ root1.entries[n].listing # "ok") =>
                /\ n \in Keys(original_tree_dict)
                /\ original_tree_dict[n].type = "error"
                /\ pc \in {"phaseA", "phaseB"} =>
                     /\ \E item \in items1 : item[1] = <<n>> /\ item[2] = "error"
                     /\ <<n>> \notin DirPaths(items1)

\* ------------------------------------------------------------------- C9
\* a tree holds a child that is no dict, or a directory whose children value
\* is no dict
RECURSIVE HasMalformed(_)
HasMalformed(tree) ==
    \E n \in Keys(tree) :
        \/ ~IsDict(tree[n])
        \/ /\ tree[n].type = "directory"
           /\ (~IsDict(tree[n].children) \/ HasMalformed(tree[n].children))

\* the tree without its malformed entries
RECURSIVE Prune(_)
Prune(tree) ==
    [n \in {k \in Keys(tree) : IsDict(tree[k])} |->
        IF tree[n].type = "directory"
        THEN DirNode(IF IsDict(tree[n].children) THEN Prune(tree[n].children) ELSE EmptyDict)
        ELSE tree[n]]

\* the scorer has just returned for trees with a malformed entry
MalformedScored ==
    /\ pc = "flatten" \/ (pc = "done" /\ raised = "zss")
    /\ HasMalformed(original_tree_dict) \/ HasMalformed(restructured_tree_dict)

ScenarioDirBefore == "a" :> DirNode(EmptyDict)
ScenarioDirAfter == "b" :> DirNode("a" :> DirNode(EmptyDict))

\* the step of Phase B that visits dd counts it as a move when an unclaimed
\* added candidate carries its trailing name
MoveTakesPriority ==
    (pc = "phaseB" /\ todo' # todo) =>
        LET dd == CHOOSE d \in todo : d \notin todo'
            unclaimed == added_dirs_cand \ matched_added_dirs
        IN  (\E ad \in unclaimed : FileName(ad) = FileName(dd)) =>
                /\ dirs_moved' = dirs_moved + 1
                /\ dirs_renamed' = dirs_renamed
                /\ dd \in processed_deleted_dirs'
                /\ \E m \in matched_added_dirs' \ matched_added_dirs :
                     /\ m \in unclaimed
                     /\ FileName(m) = FileName(dd)

\* a directory counted as moved is reported neither deleted nor renamed
MovedIsNeitherDeletedNorRenamed ==
    DiffCompleted =>
        /\ \A r \in moved_renamed_dir_details :
             r.type = "moved" =>
                /\ r.original_path \notin results["details"][1].deleted_dirs
                /\ \A q \in moved_renamed_dir_details :
                     q.original_path = r.original_path => q = r
        /\ (original_tree_dict = ScenarioDirBefore /\ restructured_tree_dict = ScenarioDirAfter)
             => (Count("dirs_moved") = 1 /\ Count("dirs_deleted") = 0)

\* C10: in Phase B a move match takes priority over a rename match: a deleted
\* candidate that has, when it is processed, an unclaimed added candidate with
\* its trailing name is counted in dirs_moved and claims such a candidate, and
\* is counted neither in dirs_deleted nor in dirs_renamed; a directory a that
\* disappears while b/a appears gives dirs_moved = 1 and dirs_deleted = 0.
C10_MoveBeforeRename ==
    [][MoveTakesPriority]_vars /\ []MovedIsNeitherDeletedNorRenamed

\* the scenario evaluated to the end: b was a rename candidate, b/a the move
C10_Witness ==
    /\ DiffCompleted
    /\ original_tree_dict = ScenarioDirBefore
    /\ restructured_tree_dict = ScenarioDirAfter
    /\ Count("dirs_moved") = 1
    /\ Count("dirs_added") = 1

\* ------------------------------------------------------------------ C11
\* the evaluation ended in the except clause of the diff block
DiffFailed == pc = "done" /\ raised \in {"flatten", "phaseA", "phaseB"}

\* C11: when an exception occurs in the flattening, in Phase A or in Phase B,
\* the evaluation does not raise: it returns a result that has a diff_error
\* message, keeps the similarity computed before, and has every file count
\* and every directory count set to None, never to 0.
C11_DiffFailureResult ==
    DiffFailed =>
        /\ returned = "results"
        /\ "diff_error" \in Keys(results)
        /\ results["diff_error"] \in {"AttributeError", "MemoryError"}
        /\ ted_similarity # NoneVal
        /\ results["ted_similarity"] = ted_similarity
        /\ ~FloatLess(ted_similarity[1], Float(0, 1))
        /\ \A k \in file_keys \cup dir_keys :
             k \in Keys(results) /\ results[k] = NoneVal /\ results[k] # Some(0)

\* the directory analysis fails after some candidate has already been matched
C11_Witness ==
    /\ DiffFailed
    /\ raised = "phaseB"
    /\ dirs_moved + dirs_renamed > 0
    /\ results["ted_similarity"] = ted_similarity

\* ------------------------------------------------------------------ C12
\* every file of a listable directory has its file node in the snapshot, with
\* no hash exactly when it cannot be read, next to the nodes of its siblings
RECURSIVE FilesKept(_, _)
FilesKept(dir, tree) ==
    \A n \in Keys(dir.entries) :
        LET entry == dir.entries[n]
        IN  IF entry.kind = "file"
            THEN /\ n \in Keys(tree)
                 /\ tree[n].type = "file"
                 /\ (tree[n].hash = None) <=> (entry.data = Unreadable)
            ELSE IF entry.kind = "dir"
            THEN /\ n \in Keys(tree)
                 /\ tree[n].type = "directory"
                 /\ entry.listing = "ok" => FilesKept(entry, tree[n].children)
            ELSE TRUE

Listable(root) == root.kind = "dir" /\ root.listing = "ok"

\* a listable directory holds, at any depth, a file that cannot be read
RECURSIVE HasUnreadable(_)
HasUnreadable(dir) ==
    \E n \in Keys(dir.entries) :
        LET entry == dir.entries[n]
        IN  \/ entry.kind = "file" /\ entry.data = Unreadable
            \/ entry.kind = "dir" /\ entry.listing = "ok" /\ HasUnreadable(entry)

\* the directory without its files that cannot be read
RECURSIVE WithoutUnreadable(_)
WithoutUnreadable(dir) ==
    LET keep == {n \in Keys(dir.entries) :
                    ~(dir.entries[n].kind = "file" /\ dir.entries[n].data = Unreadable)}
    IN  FsDir([n \in keep |->
                  IF dir.entries[n].kind = "dir" /\ dir.entries[n].listing = "ok"
                  THEN WithoutUnreadable(dir.entries[n])
                  ELSE dir.entries[n]])

\* the file maps an evaluation can get from the directory without its
\* unreadable files
ReadableFileMaps(root) ==
    FileMaps(_flatten_tree_with_hashes(
                 create_directory_tree_with_hashes(
                     IF Listable(root) THEN WithoutUnreadable(root) ELSE root),
                 RootPath))

SomeUnreadable ==
    \/ Listable(root1) /\ HasUnreadable(root1)
    \/ Listable(root2) /\ HasUnreadable(root2)

\* C12: a file that cannot be read still gets a file node, with no hash, and
\* its siblings get their nodes; an evaluation over a snapshot with such a
\* node completes without diff_error and with a similarity in [0, 1]; the
\* unreadable file is in none of the file counts and the readable files are
\* counted as for the directory without the unreadable ones.
C12_UnreadableFile ==
    /\ (pc # "build" /\ Listable(root1)) => FilesKept(root1, original_tree_dict)
    /\ (pc # "build" /\ Listable(root2)) => FilesKept(root2, restructured_tree_dict)
    /\ (pc = "done" /\ raised = "no" /\ SomeUnreadable) =>
          /\ DiffCompleted
          /\ ~FloatLess(ted_similarity[1], Float(0, 1))
          /\ ~FloatLess(Float(1, 1), ted_similarity[1])
          /\ None \notin Keys(files1_map) \cup Keys(files2_map)
          /\ files1_map \in ReadableFileMaps(root1)
          /\ files2_map \in ReadableFileMaps(root2)
          /\ \A k \in file_keys : results[k] = FileCounts(files1_map, files2_map)[k]
          /\ Count("files_deleted") + Count("files_unchanged") + Count("files_moved")
               + Count("files_renamed") + Count("files_moved_renamed")
               = Cardinality(Keys(files1_map))

\* an unreadable file next to a readable one, which alone is counted
C12_Witness ==
    /\ DiffCompleted
    /\ Listable(root1)
    /\ \E n, m \in Keys(root1.entries) :
          /\ root1.entries[n] = FsFile(Unreadable)
          /\ root1.entries[m] = FsFile("c1")
          /\ original_tree_dict[n] = FileNode(None)
    /\ restructured_tree_dict = EmptyDict
    /\ Count("files_deleted") = 1
    /\ Count("files_added") = 0

\* ------------------------------------------------------------------ C13
\* the nodes of a well-formed tree, each with the names that lead to it
RECURSIVE NodesOf(_)
NodesOf(tree) ==
    UNION {{<<<<n>>, tree[n]>>}
           \cup (IF tree[n].type = "directory"
                 THEN {<<<<n>> \o sub[1], sub[2]>> : sub \in NodesOf(tree[n].children)}
                 ELSE {})
           : n \in Keys(tree)}

\* the names of a node and of its ancestors, joined by "/"
RECURSIVE PathOf(_)
PathOf(names) ==
    IF Len(names) = 1 THEN <<names[1]>>
    ELSE PathOf(SubSeq(names, 1, Len(names) - 1)) \o <<"/", names[Len(names)]>>

\* the identity of a node: the hash of a file, the message of an error
IdentityOf(node) ==
    IF node.type = "file" THEN node.hash
    ELSE IF node.type = "error" THEN node.message
    ELSE None

EntryOf(pos) == <<PathOf(pos[1]), pos[2].type, IdentityOf(pos[2])>>

OneEntryPerNode(tree, items) ==
    \A nodes \in {NodesOf(tree)} :
        /\ items = {EntryOf(pos) : pos \in nodes}
        /\ Cardinality(items) = Cardinality(nodes)
        /\ Cardinality({item[1] : item \in items}) = Cardinality(nodes)
        /\ \A pos \in nodes :
              pos[2].type = "directory" =>
                  /\ <<PathOf(pos[1]), "directory", None>> \in items
                  /\ \A n \in Keys(pos[2].children) :
                        \E item \in items : item[1] = PathOf(pos[1]) \o <<"/", n>>

RECURSIVE WithoutHashes(_)
WithoutHashes(tree) ==
    [n \in Keys(tree) |->
        IF tree[n].type = "file" THEN FileNode(None)
        ELSE IF tree[n].type = "directory" THEN DirNode(WithoutHashes(tree[n].children))
        ELSE tree[n]]

\* C14: the similarity depends on names and shape only: the score of two
\* trees is the score of the same two trees without their hash values, so
\* two pairs of trees that differ only in the hash values of file nodes get
\* the same score.
C14_SimilarityIgnoresHashes ==
    Scored =>
        \A t1 \in {WithoutHashes(original_tree_dict)},
           t2 \in {WithoutHashes(restructured_tree_dict)} :
            /\ SameShape(t1, original_tree_dict)
            /\ SameShape(t2, restructured_tree_dict)
            /\ ted_similarity[1] = calculate_tree_similarity_zss_hashed(t1, t2, FALSE)

\* two snapshots whose files are all different by content and equal by name
C14_Witness ==
    /\ Scored
    /\ original_tree_dict = ("a" :> FileNode("H1") @@ "b" :> DirNode(EmptyDict))
    /\ restructured_tree_dict = ("a" :> FileNode("H2") @@ "b" :> DirNode(EmptyDict))
    /\ FloatEq(ted_similarity[1], Float(1, 1))

\* ------------------------------------------------------------------ C15
Details == results["details"][1]

\* C15: after Phase B, a directory reported as deleted and a directory
\* reported as added share neither the trailing name nor the parent path: no
\* deleted candidate is left while an unclaimed added candidate that matches
\* it as a move or as a rename remains.
C15_NoMatchLeftOver ==
    DiffCompleted =>
        \A d \in Details.deleted_dirs, a \in Details.added_dirs :
            /\ FileName(d) # FileName(a)
            /\ ParentPath(d) # ParentPath(a)

\* a directory is deleted and another is added, one level deeper and under
\* another name
C15_Witness ==
    /\ DiffCompleted
    /\ original_tree_dict = ("a" :> DirNode(EmptyDict) @@ "b" :> DirNode(EmptyDict))
    /\ restructured_tree_dict = ("b" :> DirNode("b" :> DirNode(EmptyDict)))
    /\ Details.deleted_dirs = {<<"a">>}
    /\ Details.added_dirs = {<<"b", "/", "b">>}
    /\ Count("dirs_deleted") = 1
    /\ Count("dirs_added") = 1

\* ------------------------------------------------------------------ C16
\* The loop of Phase B run in one fixed order: the deleted candidates in the
\* order of the sequence, each taking a fixed element of its potential
\* matches. The result is the triple (dirs_moved, dirs_renamed, matched).
RECURSIVE PhaseBInOrder(_, _, _, _, _)
PhaseBInOrder(order, added, matched, moved, renamed) ==
    IF order = <<>> THEN <<moved, renamed, matched>>
    ELSE LET dd == Head(order)
             potential_moves == PotentialMoves(dd, added, matched)
             potential_renames == PotentialRenames(dd, added, matched)
         IN  IF potential_moves # {}
             THEN PhaseBInOrder(Tail(order), added,
                                matched \cup {CHOOSE ad \in potential_moves : TRUE},
                                moved + 1, renamed)
             ELSE IF potential_renames # {}
             THEN PhaseBInOrder(Tail(order), added,
                                matched \cup {CHOOSE ad \in potential_renames : TRUE},
                                moved, renamed + 1)
             ELSE PhaseBInOrder(Tail(order), added, matched, moved, renamed)

\* the elements of a set in one fixed order
RECURSIVE InFixedOrder(_)
InFixedOrder(S) ==
    IF S = {} THEN <<>>
    ELSE LET x == CHOOSE y \in S : TRUE IN <<x>> \o InFixedOrder(S \ {x})

\* C16: for a fixed pair of snapshots the counts dirs_moved, dirs_renamed,
\* dirs_added and dirs_deleted of Phase B are the same whatever the order of
\* the deleted candidates and whichever eligible added candidate is taken:
\* every run gives the counts of the run in the fixed order.
C16_PhaseBDeterministic ==
    DiffCompleted =>
        \A ref \in {PhaseBInOrder(InFixedOrder(deleted_dirs_cand), added_dirs_cand, {}, 0, 0)} :
            /\ Count("dirs_moved") = ref[1]
            /\ Count("dirs_renamed") = ref[2]
            /\ Count("dirs_added") = Cardinality(added_dirs_cand \ ref[3])
            /\ Count("dirs_deleted") = Cardinality(deleted_dirs_cand) - ref[1] - ref[2]

\* ------------------------------------------------------------------ C17
\* the number of directory nodes of a snapshot, each of which has its own path
RECURSIVE DirCount(_)
DirCount(tree) ==
    LET ds == {n \in Keys(tree) : IsDict(tree[n]) /\ tree[n].type = "directory"}
        RECURSIVE Sum(_)
        Sum(S) == IF S = {} THEN 0
                  ELSE LET n == CHOOSE m \in S : TRUE
                       IN  1 + DirCount(tree[n].children) + Sum(S \ {n})
    IN  IF IsDict(tree) THEN Sum(ds) ELSE 0

\* the matching of Phase B so far is one-to-one between deleted and added
\* candidates
MatchingOneToOne ==
    /\ \A r, q \in moved_renamed_dir_details :
          (r.original_path = q.original_path \/ r.new_path = q.new_path) => r = q
    /\ {r.original_path : r \in moved_renamed_dir_details} = processed_deleted_dirs
    /\ {r.new_path : r \in moved_renamed_dir_details} = matched_added_dirs
    /\ processed_deleted_dirs \subseteq deleted_dirs_cand
    /\ matched_added_dirs \subseteq added_dirs_cand
    /\ Cardinality(moved_renamed_dir_details) = dirs_moved + dirs_renamed

\* C17: Phase B partitions the directories and its matching is one-to-one:
\* an added candidate is claimed by at most one deleted candidate and a
\* deleted candidate claims at most one added candidate; dirs_unchanged +
\* dirs_deleted + dirs_moved + dirs_renamed is the number of directory paths
\* of snapshot 1 and dirs_unchanged + dirs_added + dirs_moved + dirs_renamed
\* the number of directory paths of snapshot 2.
C17_PhaseBPartition ==
    /\ pc = "phaseB" => MatchingOneToOne
    /\ DiffCompleted =>
          /\ MatchingOneToOne
          /\ Count("dirs_unchanged") + Count("dirs_deleted") + Count("dirs_moved")
               + Count("dirs_renamed") = DirCount(original_tree_dict)
          /\ Count("dirs_unchanged") + Count("dirs_added") + Count("dirs_moved")
               + Count("dirs_renamed") = DirCount(restructured_tree_dict)

\* two deleted candidates with the same trailing name, each with its own match
C17_Witness ==
    /\ DiffCompleted
    /\ Cardinality(deleted_dirs_cand) = 2
    /\ \A d \in deleted_dirs_cand : FileName(d) = <<"a">>
    /\ Cardinality(matched_added_dirs) = 2
    /\ Count("dirs_moved") + Count("dirs_renamed") = 2
    /\ DirCount(original_tree_dict) = 2

\* ------------------------------------------------------------------ C18
\* the labels and the nesting of the children of a converted node
RECURSIVE KidsShape(_)
KidsShape(kids) ==
    [l \in {kids[i].label : i \in DOMAIN kids} |->
        KidsShape(kids[CHOOSE i \in DOMAIN kids : kids[i].label = l].kids)]

\* the flattener returned the entries of the nodes outside the malformed
\* entries, and nothing else
FlattenedButMalformed(tree, items) ==
    items = {EntryOf(pos) : pos \in NodesOf(Prune(tree))}

\* the conversion returned the nodes outside the malformed entries, under
\* the root, and counted them
ConvertedButMalformed(tree) ==
    \A conv \in {_dict_to_zss_node_recursive_hashed(root_label, DirNode(tree))},
       pruned \in {Prune(tree)} :
        /\ conv[1].label = root_label
        /\ DOMAIN KidsShape(conv[1].kids) = Keys(ShapeOf(pruned))
        /\ KidsShape(conv[1].kids) = ShapeOf(pruned)
        /\ conv[2] = 1 + Cardinality(NodesOf(pruned))

\* C18: a malformed entry (a child value that is no dict, a directory whose
\* children value is no dict) raises neither in the flattener nor in the
\* conversion: only the subtree of that entry is skipped, and every
\* well-formed sibling is flattened and converted with its descendants.
C18_MalformedEntryIsSkipped ==
    /\ raised # "flatten"
    /\ (pc = "flatten" /\ raised # "zss") =>
          /\ ted_similarity # Some(Sentinel)
          /\ ConvertedButMalformed(original_tree_dict)
          /\ ConvertedButMalformed(restructured_tree_dict)
    /\ pc = "phaseA" =>
          /\ FlattenedButMalformed(original_tree_dict, items1)
          /\ FlattenedButMalformed(restructured_tree_dict, items2)

\* a child that is no dict next to a file, and a directory whose children
\* value is no dict
C18_Witness ==
    /\ pc = "phaseA"
    /\ original_tree_dict = ("a" :> NonMapping @@ "b" :> FileNode("H1"))
    /\ restructured_tree_dict = ("a" :> DirNode(NonMapping))
    /\ items1 = {<<<<"b">>, "file", "H1">>}
    /\ items2 = {<<<<"a">>, "directory", None>>}
    /\ ZssOf(original_tree_dict) = ZssNode(root_label, <<ZssNode("b", <<>>)>>)

\* ------------------------------------------------------------------ C19
ChangeTypes == {"moved", "renamed", "moved_renamed"}

\* the change of a file from one path to another, by parent path and name
ChangeOf(path1, path2) ==
    IF ParentPath(path1) # ParentPath(path2) /\ FileName(path1) # FileName(path2)
    THEN "moved_renamed"
    ELSE IF ParentPath(path1) # ParentPath(path2) THEN "moved"
    ELSE "renamed"

\* C19: Phase A emits exactly one detail record per common hash whose two
\* representative paths differ: the number of records is files_moved +
\* files_renamed + files_moved_renamed, and every record has a change_type
\* among moved, renamed and moved_renamed that agrees with the counter
\* incremented for it.
C19_FileDetailRecords ==
    DiffCompleted =>
        \A records \in {Details.moved_renamed_files},
           changed \in {{h \in Keys(files1_map) \cap Keys(files2_map) :
                            files1_map[h] # files2_map[h]}} :
            /\ {r.hash : r \in records} = changed
            /\ Cardinality(records) = Cardinality(changed)
            /\ Cardinality(records) = Count("files_moved") + Count("files_renamed")
                                        + Count("files_moved_renamed")
            /\ \A r \in records :
                  /\ r.original_path = files1_map[r.hash]
                  /\ r.new_path = files2_map[r.hash]
                  /\ r.change_type \in ChangeTypes
                  /\ r.change_type = ChangeOf(r.original_path, r.new_path)
            /\ Count("files_moved") = Cardinality({r \in records : r.change_type = "moved"})
            /\ Count("files_renamed") = Cardinality({r \in records : r.change_type = "renamed"})
            /\ Count("files_moved_renamed") =
                   Cardinality({r \in records : r.change_type = "moved_renamed"})

\* two files exchange their names: two records, both renamed
C19_Witness ==
    /\ DiffCompleted
    /\ Cardinality(Details.moved_renamed_files) = 2
    /\ \A r \in Details.moved_renamed_files : r.change_type = "renamed"
    /\ Count("files_renamed") = 2
    /\ Count("files_unchanged") = 0

====
